---- MODULE Spec2Model ----
(***************************************************************************)
(* Weighted aggregation of the EMIT L2B mineralogy tutorial                *)
(* (python/tutorials/Working_with_EMIT_L2B_Mineralogy.ipynb).              *)
(*                                                                         *)
(* The notebook is a straight-line program: every code cell is one action  *)
(* and pc is the position in the notebook.  The rasters of ds_min are      *)
(* kept as one row of pixels (a sequence); a float is a record that is     *)
(* either NaN or a number.  Numbers are small integers, for which the      *)
(* binary64 arithmetic of numpy is exact.                                  *)
(***************************************************************************)
EXTENDS Integers, Sequences, FiniteSets, TLC

\* Bound of the model: pixels per raster row plus rows of the weight table.
MaxSize == 3
\* Bound of the model: pixels per raster row.
MaxCells == 2

\* The fill value orthorectification writes into cells with no source pixel.
FillValue == -9999

(***************************************************************************)
(* numpy float64, restricted to NaN and exactly representable integers.    *)
(***************************************************************************)
NaN == [nan |-> TRUE, v |-> 0]
Num(x) == [nan |-> FALSE, v |-> x]
isnan(x) == x.nan
\* x == y of IEEE-754: never true when a side is NaN.
FEq(x, y) == ~x.nan /\ ~y.nan /\ x.v = y.v
FAdd(x, y) == IF x.nan \/ y.nan THEN NaN ELSE Num(x.v + y.v)
FMul(x, y) == IF x.nan \/ y.nan THEN NaN ELSE Num(x.v * y.v)
\* A numpy bool as it enters a float product: True is 1.0, False is 0.0.
BoolNum(b) == IF b THEN Num(1) ELSE Num(0)

(***************************************************************************)
(* The inputs.  ds_min holds, per spectral group, a mineral-id raster and  *)
(* a band-depth raster; mineral_groupings is the table read from the .csv: *)
(* per row a Group, an Index and one raw weight per EMIT-10 mineral.       *)
(***************************************************************************)
Groups == {1, 2}
\* The EMIT-10 mineral columns, cut down to two output categories.
mineral_names == <<"Calcite", "Goethite">>
Cats == 1..Len(mineral_names)

\* The spectral-library entry identified in group g (identifier g) and the
\* band depth its pixels carry; band depths of either sign occur.
Entry(g) == g
Depth(g) == IF g = 1 THEN 2 ELSE -1
\* A library entry the grouping table has no row for.
Ungrouped == Cardinality(Groups) + 1
\* A pixel <<mineral id, band depth>> of group g after orthorectification: no
\* match, the group's entry, an entry without a table row, or fill in both.
Pixels(g) ==
  {<<0, 0>>, <<Entry(g), Depth(g)>>, <<Ungrouped, 2>>, <<FillValue, FillValue>>}

\* Raw weights of the .csv: a weight, the marker -1, a stray negative value.
RawWeights == {-1, 2, -2}
\* The weight columns of one row: all empty, or one mineral filled in.
WeightRows ==
  {[m \in Cats |-> NaN]} \cup
  {[m \in Cats |-> IF m = k THEN Num(x) ELSE NaN] : k \in Cats, x \in RawWeights}
\* Rows of the table: one per library entry, with its group.
Rows == {[Group |-> g, Index |-> Entry(g), w |-> wr] : g \in Groups, wr \in WeightRows}
Tables(n) == UNION {[1..k -> Rows] : k \in 0..n}

\* The layers a raster row may have one extra pixel in (a shape mismatch).
Layers == {<<"mineral_id", g>> : g \in Groups} \cup {<<"band_depth", g>> : g \in Groups}
Widen(s, on) == IF on THEN Append(s, s[Len(s)]) ELSE s
\* The dataset after et.ortho_xr: px[g] is the row of pixels of group g and
\* ragged names the layers widened by one pixel.
Dataset(px, ragged) ==
  [mineral_id |-> [g \in Groups |->
      Widen([i \in DOMAIN px[g] |-> Num(px[g][i][1])], <<"mineral_id", g>> \in ragged)],
   band_depth |-> [g \in Groups |->
      Widen([i \in DOMAIN px[g] |-> Num(px[g][i][2])], <<"band_depth", g>> \in ragged)]]

VARIABLES pc, ds_min, mineral_groupings, mineral_abundance_ref,
          mineral_abundance, accumulated, granule, min_df, tif, reread
vars == <<pc, ds_min, mineral_groupings, mineral_abundance_ref,
          mineral_abundance, accumulated, granule, min_df, tif, reread>>
\* The granule as opened, the reference table, the raster files written and
\* what is read back from them: the aggregation cells touch none of them.
files == <<granule, min_df, tif, reread>>

Init ==
  /\ pc = "ortho"
  /\ \E W \in 1..MaxCells :
       /\ \E p1 \in [1..W -> Pixels(1)], p2 \in [1..W -> Pixels(2)],
             ragged \in {{}} \cup {{l} : l \in Layers} :
            ds_min = Dataset(<<p1, p2>>, ragged)
       /\ mineral_groupings \in Tables(MaxSize - W)
  /\ mineral_abundance_ref = <<>>
  /\ mineral_abundance = <<>>
  /\ accumulated = 0
  /\ granule = <<>> /\ min_df = <<>> /\ tif = <<>> /\ reread = <<>>

(***************************************************************************)
(* ds_min[var].data[ds_min[var].data == -9999] = np.nan, for every layer.  *)
(***************************************************************************)
FillToNaN(layer) ==
  [i \in DOMAIN layer |-> IF FEq(layer[i], Num(FillValue)) THEN NaN ELSE layer[i]]

AssignFill ==
  /\ pc = "ortho"
  /\ ds_min' = [mineral_id |-> [g \in Groups |-> FillToNaN(ds_min.mineral_id[g])],
                band_depth |-> [g \in Groups |-> FillToNaN(ds_min.band_depth[g])]]
  /\ pc' = "filled"
  /\ UNCHANGED <<mineral_groupings, mineral_abundance_ref, mineral_abundance, accumulated>>
  /\ UNCHANGED files

(***************************************************************************)
(* mineral_abundance_ref = np.array(mineral_groupings[mineral_names]), a   *)
(* copy, with NaN replaced by 0 and then -1 by 1.                          *)
(***************************************************************************)
\* Mutant: the -1 marker is left in place.
ResolveWeightKeepsMarker(x) == IF isnan(x) THEN Num(0) ELSE x

ResolveWeight(x) ==
  LET y == IF isnan(x) THEN Num(0) ELSE x
  IN IF FEq(y, Num(-1)) THEN Num(1) ELSE y

Resolve(table) ==
  [c \in DOMAIN table |-> [m \in Cats |-> ResolveWeight(table[c].w[m])]]

\* Mutant: the weights are resolved in the columns of mineral_groupings itself
\* (a view in place of the copy np.array makes).
ResolveWeightsInPlace ==
  /\ pc = "filled"
  /\ mineral_abundance_ref' = Resolve(mineral_groupings)
  /\ mineral_groupings' =
       [c \in DOMAIN mineral_groupings |->
          [mineral_groupings[c] EXCEPT !.w = Resolve(mineral_groupings)[c]]]
  /\ pc' = "resolved"
  /\ UNCHANGED <<ds_min, mineral_abundance, accumulated>>
  /\ UNCHANGED files

ResolveWeights ==
  /\ pc = "filled"
  /\ mineral_abundance_ref' = Resolve(mineral_groupings)
  /\ pc' = "resolved"
  /\ UNCHANGED <<ds_min, mineral_groupings, mineral_abundance, accumulated>>
  /\ UNCHANGED files

(***************************************************************************)
(* The aggregation cell.                                                   *)
(***************************************************************************)
\* np.zeros((shape of group_1_band_depth, len(mineral_names)))
Zeros(ds) == [i \in 1..Len(ds.band_depth[1]) |-> [m \in Cats |-> Num(0)]]

\* The length numpy broadcasts two row lengths to, 0 when it cannot.
BroadcastLen(a, b) == IF a = b THEN a ELSE IF a = 1 THEN b ELSE IF b = 1 THEN a ELSE 0
\* Pixel i of a layer broadcast over a longer row.
At(layer, i) == IF Len(layer) = 1 THEN layer[1] ELSE layer[i]

\* Mutant: every identified pixel (mineral_id > 0) counts as a match.
TermAnyMineral(ds, group, index, weight, i) ==
  FMul(FMul(BoolNum(~isnan(At(ds.mineral_id[group], i))
                      /\ At(ds.mineral_id[group], i).v > 0),
            At(ds.band_depth[group], i)),
       weight)

\* Mutant: the weight is left out of the product.
TermUnweighted(ds, group, index, weight, i) ==
  FMul(BoolNum(FEq(At(ds.mineral_id[group], i), Num(index))), At(ds.band_depth[group], i))

\* (mineral_id == Index) * band_depth * mineral_abundance_ref[_c][_m] at pixel i
Term(ds, group, index, weight, i) ==
  FMul(FMul(BoolNum(FEq(At(ds.mineral_id[group], i), Num(index))),
            At(ds.band_depth[group], i)),
       weight)

\* Mutant: the product is stored with = instead of added with +=.
LoopBodyAssign(ds, table, ref, st, m, c) ==
  IF isnan(table[c].w[m]) THEN st
  ELSE LET group == table[c].Group
           n == BroadcastLen(Len(ds.mineral_id[group]), Len(ds.band_depth[group]))
           out == Len(st.acc)
       IN IF n = 0 \/ ~(n = out \/ n = 1)
          THEN [st EXCEPT !.err = TRUE]
          ELSE [acc |-> [i \in 1..out |->
                           [st.acc[i] EXCEPT
                              ![m] = Term(ds, group, table[c].Index, ref[c][m], i)]],
                n |-> st.n + 1,
                err |-> FALSE]

\* Mutant: the rows with an empty weight are not skipped.
LoopBodyNoSkip(ds, table, ref, st, m, c) ==
  LET group == table[c].Group
      n == BroadcastLen(Len(ds.mineral_id[group]), Len(ds.band_depth[group]))
      out == Len(st.acc)
  IN IF n = 0 \/ ~(n = out \/ n = 1)
     THEN [st EXCEPT !.err = TRUE]
     ELSE [acc |-> [i \in 1..out |->
                      [st.acc[i] EXCEPT
                         ![m] = FAdd(@, Term(ds, group, table[c].Index, ref[c][m], i))]],
           n |-> st.n + 1,
           err |-> FALSE]

\* One pass of the inner loop body, for mineral _m and table row _c.  st is
\* the array so far, the number of += statements done, and whether numpy
\* raised a ValueError.
LoopBody(ds, table, ref, st, m, c) ==
  IF isnan(table[c].w[m]) THEN st
  ELSE LET group == table[c].Group
           n == BroadcastLen(Len(ds.mineral_id[group]), Len(ds.band_depth[group]))
           out == Len(st.acc)
       IN IF n = 0 \/ ~(n = out \/ n = 1)
          THEN [st EXCEPT !.err = TRUE]
          ELSE [acc |-> [i \in 1..out |->
                           [st.acc[i] EXCEPT
                              ![m] = FAdd(@, Term(ds, group, table[c].Index, ref[c][m], i))]],
                n |-> st.n + 1,
                err |-> FALSE]

\* The two nested loops, mineral by mineral and row by row; k counts passes.
RECURSIVE Loop(_, _, _, _, _)
Loop(ds, table, ref, st, k) ==
  IF st.err \/ k > Len(mineral_names) * Len(table) THEN st
  ELSE Loop(ds, table, ref,
            LoopBody(ds, table, ref, st,
                     ((k - 1) \div Len(table)) + 1, ((k - 1) % Len(table)) + 1),
            k + 1)

\* Mutant: the NaN sums are left in the array.
NanKept(acc) == acc

\* mineral_abundance[np.isnan(mineral_abundance)] = 0
NanToZero(acc) ==
  [i \in DOMAIN acc |-> [m \in Cats |-> IF isnan(acc[i][m]) THEN Num(0) ELSE acc[i][m]]]
\* Mutant: np.any in place of np.all, a cell with some zero category is masked.
MaskAnyZero(acc) ==
  [i \in DOMAIN acc |->
     IF \E m \in Cats : FEq(acc[i][m], Num(0)) THEN [m \in Cats |-> NaN] ELSE acc[i]]

\* Mutant: every zero entry is set to NaN on its own.
MaskEachZero(acc) ==
  [i \in DOMAIN acc |->
     [m \in Cats |-> IF FEq(acc[i][m], Num(0)) THEN NaN ELSE acc[i][m]]]

\* mineral_abundance[np.all(mineral_abundance == 0, axis=-1),:] = np.nan
MaskAllZero(acc) ==
  [i \in DOMAIN acc |->
     IF \A m \in Cats : FEq(acc[i][m], Num(0)) THEN [m \in Cats |-> NaN] ELSE acc[i]]

\* The rows that are the first of their (Group, Index).
FirstOfKey(table) ==
  {c \in DOMAIN table :
     \A b \in 1..(c - 1) :
       table[b].Group # table[c].Group \/ table[b].Index # table[c].Index}
RECURSIVE Pick(_, _, _)
Pick(s, keep, c) ==
  IF c > Len(s) THEN <<>>
  ELSE (IF c \in keep THEN <<s[c]>> ELSE <<>>) \o Pick(s, keep, c + 1)
\* Mutant: duplicate rows of one (Group, Index) are dropped before the loops.
AccumulateDeduped(ds, table, ref) ==
  Loop(ds, Pick(table, FirstOfKey(table), 1), Pick(ref, FirstOfKey(table), 1),
       [acc |-> Zeros(ds), n |-> 0, err |-> FALSE], 1)

\* The loops, started on the array of zeros.
Accumulate(ds, table, ref) ==
  Loop(ds, table, ref, [acc |-> Zeros(ds), n |-> 0, err |-> FALSE], 1)

\* The two statements after the loops.
Finish(acc) == MaskAllZero(NanToZero(acc))

\* The aggregation cell as a whole: the array it leaves, and whether it raised.
Run(ds, table, ref) ==
  LET st == Accumulate(ds, table, ref)
  IN [err |-> st.err, n |-> st.n, out |-> IF st.err THEN st.acc ELSE Finish(st.acc)]

Aggregate ==
  /\ pc = "resolved"
  /\ LET r == Run(ds_min, mineral_groupings, mineral_abundance_ref)
     IN /\ accumulated' = r.n
        /\ mineral_abundance' = r.out
        /\ pc' = IF r.err THEN "ValueError" ELSE "aggregated"
  /\ UNCHANGED <<ds_min, mineral_groupings, mineral_abundance_ref>>
  /\ UNCHANGED files

\* Weight resolution and aggregation of a dataset and a table, as a function.
Abundance(ds, table) ==
  LET r == Run(ds, table, Resolve(table))
  IN [err |-> r.err, out |-> r.out]

Next == AssignFill \/ ResolveWeights \/ Aggregate

Spec == Init /\ [][Next]_vars

(***************************************************************************)
(* Loading: ds_min = et.emit_xarray(fp), the reference table min_df, and   *)
(* ds_min = et.ortho_xr(ds_min).  The granule holds the layers in sensor   *)
(* geometry, indexed from 0 as numpy does, the index map of the output     *)
(* grid (one row of raw (row, column) pairs, counted from 1) and the       *)
(* library columns index and mineral_name.                                 *)
(***************************************************************************)
MaxMinerals == 3

\* The shapes (R, C) of the source rasters.
SourceShapes == {<<1, 2>>, <<2, 2>>}
Positions(shape) == (0..(shape[1] - 1)) \X (0..(shape[2] - 1))
SourcePixels(g) == {<<0, 0>>, <<Entry(g), Depth(g)>>}
\* Raw index-map cells: no source pixel (0 or negative in both components), or
\* a pair of positive indices, up to one past the largest source raster.
Side == CHOOSE n \in 1..Cardinality(SourceShapes) + 1 :
          /\ \E s \in SourceShapes : n \in {s[1], s[2]}
          /\ \A s \in SourceShapes : s[1] <= n /\ s[2] <= n
GltCells == {<<0, 0>>, <<-1, -1>>} \cup ((1..(Side + 1)) \X (1..(Side + 1)))
Names == {mineral_names[m] : m \in Cats}
Library(ids, names) == [index |-> ids, mineral_name |-> names]
DefaultLibrary == Library([k \in Cats |-> k], mineral_names)
Libraries ==
  UNION {{Library(ids, names) : ids \in [1..n -> 1..MaxMinerals], names \in [1..n -> Names]} :
           n \in 0..MaxMinerals}
Raster(shape, px, glt, lib) ==
  [shape |-> shape,
   mineral_id |-> [g \in Groups |-> [p \in Positions(shape) |-> Num(px[g][p][1])]],
   band_depth |-> [g \in Groups |-> [p \in Positions(shape) |-> Num(px[g][p][2])]],
   glt |-> glt, index |-> lib.index, mineral_name |-> lib.mineral_name]
\* The granule of the reference-table cells: one pixel and any library.
TableGranule(lib) ==
  Raster(<<1, 1>>, [g \in Groups |-> [p \in Positions(<<1, 1>>) |-> <<Entry(g), Depth(g)>>]],
         <<<<1, 1>>>>, lib)

LoadIdle ==
  /\ pc = "opened"
  /\ ds_min = granule
  /\ mineral_groupings = <<>>
  /\ mineral_abundance_ref = <<>>
  /\ mineral_abundance = <<>>
  /\ accumulated = 0
  /\ min_df = <<>> /\ tif = <<>> /\ reread = <<>>

InitLoad ==
  /\ \/ \E lib \in Libraries : granule = TableGranule(lib)
     \/ \E shape \in SourceShapes, W \in 1..MaxCells :
          \E p1 \in [Positions(shape) -> SourcePixels(1)],
             p2 \in [Positions(shape) -> SourcePixels(2)],
             glt \in [1..W -> GltCells] :
            granule = Raster(shape, <<p1, p2>>, glt, DefaultLibrary)
  /\ LoadIdle

(***************************************************************************)
(* min_df = pd.DataFrame({...}); min_df.loc[-1] = {'index': 0,             *)
(* 'mineral_name': 'No_Match', ...};                                       *)
(* min_df = min_df.sort_index().reset_index(drop=True)                     *)
(* A frame is the sequence of its rows, each with its label.               *)
(***************************************************************************)
DataFrame(ds) ==
  [k \in DOMAIN ds.index |->
     [label |-> k - 1, index |-> ds.index[k], mineral_name |-> ds.mineral_name[k]]]
\* min_df.loc[-1] = {...}: the label is new, so the row is appended.
SetLoc(df, label, row) ==
  Append(df, [label |-> label, index |-> row.index, mineral_name |-> row.mineral_name])
No_Match == [index |-> 0, mineral_name |-> "No_Match"]
\* One row put in its place among rows already in label order, after the
\* rows of equal label.
RECURSIVE Insert(_, _)
Insert(df, row) ==
  IF df = <<>> THEN <<row>>
  ELSE IF row.label < df[1].label THEN <<row>> \o df
  ELSE <<df[1]>> \o Insert(Tail(df), row)
RECURSIVE SortFrom(_, _)
SortFrom(done, rest) ==
  IF rest = <<>> THEN done ELSE SortFrom(Insert(done, rest[1]), Tail(rest))
\* Mutant: the frame is left in the order of insertion.
sort_index_skipped(df) == df
sort_index(df) == SortFrom(<<>>, df)
reset_index(df) == [k \in DOMAIN df |-> [df[k] EXCEPT !.label = k - 1]]

BuildMinDf ==
  /\ pc = "opened"
  /\ min_df' = reset_index(sort_index(SetLoc(DataFrame(ds_min), -1, No_Match)))
  /\ pc' = "min_df"
  /\ UNCHANGED <<ds_min, mineral_groupings, mineral_abundance_ref, mineral_abundance,
                 accumulated, granule, tif, reread>>

\* min_df['mineral_name'].tolist().index(name): the first position, from 0.
ListIndex(df, name) ==
  (CHOOSE k \in DOMAIN df :
     /\ df[k].mineral_name = name
     /\ \A j \in 1..(k - 1) : df[j].mineral_name # name) - 1

(***************************************************************************)
(* ds_min = et.ortho_xr(ds_min): every layer is gathered through the index *)
(* map; an output cell without a source pixel gets the fill value.         *)
(***************************************************************************)
Valid(p) == p[1] > 0 /\ p[2] > 0
\* Mutant: the raw indices are used as they are.
DecodeUnshifted(p) == p
Decode(p) == <<p[1] - 1, p[2] - 1>>
InBounds(rc, shape) == rc \in Positions(shape)
\* An index taken modulo the side, as numpy takes a negative index.
Wrapped(rc, shape) == <<rc[1] % shape[1], rc[2] % shape[2]>>
\* Mutant: a cell without a raw index is gathered like any other, its
\* decoded index counted from the end.
RemapCellUnmasked(layer, shape, p) ==
  IF Valid(p) /\ ~InBounds(Decode(p), shape) THEN Num(FillValue)
  ELSE layer[Wrapped(Decode(p), shape)]
\* Mutant: an index past the source raster wraps around.
RemapCellUnbounded(layer, shape, p) ==
  IF ~Valid(p) THEN Num(FillValue) ELSE layer[Wrapped(Decode(p), shape)]
RemapCell(layer, shape, p) ==
  IF ~Valid(p) THEN Num(FillValue)
  ELSE IF ~InBounds(Decode(p), shape) THEN Num(FillValue)
  ELSE layer[Decode(p)]
apply_glt(layer, shape, glt) == [j \in DOMAIN glt |-> RemapCell(layer, shape, glt[j])]
ortho_xr(ds) ==
  [mineral_id |-> [g \in Groups |-> apply_glt(ds.mineral_id[g], ds.shape, ds.glt)],
   band_depth |-> [g \in Groups |-> apply_glt(ds.band_depth[g], ds.shape, ds.glt)]]

Ortho ==
  /\ pc = "min_df"
  /\ ds_min' = ortho_xr(ds_min)
  /\ pc' = "ortho"
  /\ UNCHANGED <<mineral_groupings, mineral_abundance_ref, mineral_abundance,
                 accumulated, granule, min_df, tif, reread>>

NextLoad == BuildMinDf \/ Ortho \/ AssignFill

SpecLoad == InitLoad /\ [][NextLoad]_vars

(***************************************************************************)
(* Export: dat_out = ds_min['group_1_mineral_id'];                         *)
(* dat_out.data = np.nan_to_num(dat_out.data, nan=-9999);                  *)
(* dat_out.data = dat_out.data.astype(int);                                *)
(* dat_out.rio.write_nodata(-9999, encoded=True, inplace=True);            *)
(* dat_out.rio.to_raster(...), and the same for group_1_band_depth without *)
(* the cast.  dat_out shares its variable with ds_min, so assigning to     *)
(* dat_out.data replaces the layer of ds_min as well.                      *)
(***************************************************************************)
\* The scenes exported: every layer of the grid's shape, no table rows.
InitExport ==
  /\ pc = "ortho"
  /\ \E W \in 1..MaxCells :
       \E p1 \in [1..W -> Pixels(1)], p2 \in [1..W -> Pixels(2)] :
         ds_min = Dataset(<<p1, p2>>, {})
  /\ mineral_groupings = <<>>
  /\ mineral_abundance_ref = <<>>
  /\ mineral_abundance = <<>>
  /\ accumulated = 0
  /\ granule = <<>> /\ min_df = <<>> /\ tif = <<>> /\ reread = <<>>

\* Mutant: np.nan_to_num with its default, NaN to 0.
nan_to_num_default(layer) ==
  [i \in DOMAIN layer |-> IF isnan(layer[i]) THEN Num(0) ELSE layer[i]]
\* np.nan_to_num(layer, nan=-9999)
nan_to_num(layer) ==
  [i \in DOMAIN layer |-> IF isnan(layer[i]) THEN Num(FillValue) ELSE layer[i]]
\* astype(int) drops the fraction; the cells here are whole numbers, and no
\* NaN reaches the cast.
astype_int(layer) ==
  [i \in DOMAIN layer |-> IF isnan(layer[i]) THEN layer[i] ELSE Num(layer[i].v)]
\* The file to_raster writes: the cells and the nodata tag.
Raster_file(data) == [data |-> data, nodata |-> FillValue]

ExportMineralId ==
  /\ pc = "aggregated"
  /\ LET dat_out == astype_int(nan_to_num(ds_min.mineral_id[1]))
     IN /\ ds_min' = [ds_min EXCEPT !.mineral_id[1] = dat_out]
        /\ tif' = [group_1_mineral_id |-> Raster_file(dat_out)]
  /\ pc' = "mineral_id_written"
  /\ UNCHANGED <<mineral_groupings, mineral_abundance_ref, mineral_abundance,
                 accumulated, granule, min_df, reread>>

ExportBandDepth ==
  /\ pc = "mineral_id_written"
  /\ LET dat_out == nan_to_num(ds_min.band_depth[1])
     IN /\ ds_min' = [ds_min EXCEPT !.band_depth[1] = dat_out]
        /\ tif' = [group_1_mineral_id |-> tif.group_1_mineral_id,
                   group_1_band_depth |-> Raster_file(dat_out)]
  /\ pc' = "band_depth_written"
  /\ UNCHANGED <<mineral_groupings, mineral_abundance_ref, mineral_abundance,
                 accumulated, granule, min_df, reread>>

\* Reading a file back: the cells equal to its nodata tag become NaN, as in
\* the replacement of the fill value after orthorectification.
Decoded(file) ==
  [i \in DOMAIN file.data |->
     IF FEq(file.data[i], Num(file.nodata)) THEN NaN ELSE file.data[i]]

ReadBack ==
  /\ pc = "band_depth_written"
  /\ reread' = [group_1_mineral_id |-> Decoded(tif.group_1_mineral_id),
                group_1_band_depth |-> Decoded(tif.group_1_band_depth)]
  /\ pc' = "reread"
  /\ UNCHANGED <<ds_min, mineral_groupings, mineral_abundance_ref, mineral_abundance,
                 accumulated, granule, min_df, tif>>

NextExport ==
  AssignFill \/ ResolveWeights \/ Aggregate \/ ExportMineralId \/ ExportBandDepth \/ ReadBack

SpecExport == InitExport /\ [][NextExport]_vars

(***************************************************************************)
(* What the aggregation is expected to compute, written from the inputs.   *)
(***************************************************************************)
\* Every layer has the shape of the output grid.
WellShaped(ds) ==
  \A g \in Groups :
    /\ Len(ds.mineral_id[g]) = Len(ds.band_depth[1])
    /\ Len(ds.band_depth[g]) = Len(ds.band_depth[1])
\* No band depth is missing.
NoMissingDepth(ds) ==
  \A g \in Groups : \A i \in DOMAIN ds.band_depth[g] : ~isnan(ds.band_depth[g][i])
\* The weight a raw table value stands for: nothing when empty, 1 for the marker.
Weight(x) == IF isnan(x) THEN 0 ELSE IF x.v = -1 THEN 1 ELSE x.v
\* Row c has a weight for mineral m and pixel i of its group carries its Index.
Matches(ds, table, c, m, i) ==
  /\ ~isnan(table[c].w[m])
  /\ FEq(At(ds.mineral_id[table[c].Group], i), Num(table[c].Index))
\* What row c adds to mineral m at pixel i (band depths not missing).
Contribution(ds, table, c, m, i) ==
  IF Matches(ds, table, c, m, i)
  THEN At(ds.band_depth[table[c].Group], i).v * Weight(table[c].w[m])
  ELSE 0
\* The sum of the contributions of rows 1..c.
RECURSIVE SumRows(_, _, _, _, _)
SumRows(ds, table, c, m, i) ==
  IF c = 0 THEN 0
  ELSE SumRows(ds, table, c - 1, m, i) + Contribution(ds, table, c, m, i)
WeightedSum(ds, table, m, i) == SumRows(ds, table, Len(table), m, i)
\* A row with a weight for mineral m whose group has no band depth at pixel i:
\* the sum of mineral m at pixel i is NaN, and is then cleared to 0.
Poisoned(ds, table, m, i) ==
  \E c \in DOMAIN table :
    ~isnan(table[c].w[m]) /\ isnan(At(ds.band_depth[table[c].Group], i))
CatValue(ds, table, m, i) ==
  IF Poisoned(ds, table, m, i) THEN 0 ELSE WeightedSum(ds, table, m, i)

Missing(i) == \A m \in Cats : isnan(mineral_abundance[i][m])
RECURSIVE SumCats(_, _)
SumCats(cell, m) == IF m = 0 THEN 0 ELSE SumCats(cell, m - 1) + cell[m].v
\* Every raw weight is a weight (non-negative), the -1 marker, or empty.
ValidWeights(table) ==
  \A c \in DOMAIN table : \A m \in Cats :
    isnan(table[c].w[m]) \/ table[c].w[m].v >= -1
RemoveRow(s, c) == SubSeq(s, 1, c - 1) \o SubSeq(s, c + 1, Len(s))

\* C1: on layers of one shape with no missing band depth, every cell of
\* mineral_abundance that is not missing holds, in every category, the sum over
\* the table rows whose Index the cell's mineral id equals of band depth times
\* resolved weight.
C1_WeightedSum ==
  (pc = "aggregated" /\ WellShaped(ds_min) /\ NoMissingDepth(ds_min)) =>
    \A i \in DOMAIN mineral_abundance : \A m \in Cats :
      ~isnan(mineral_abundance[i][m]) =>
        mineral_abundance[i][m] = Num(WeightedSum(ds_min, mineral_groupings, m, i))

\* C1 witness: a cell and category that two table rows contribute to.
C1_Witness ==
  /\ pc = "aggregated" /\ WellShaped(ds_min) /\ NoMissingDepth(ds_min)
  /\ ValidWeights(mineral_groupings)
  /\ \E i \in DOMAIN mineral_abundance : \E m \in Cats :
       /\ ~isnan(mineral_abundance[i][m])
       /\ mineral_abundance[i][m].v # 0
       /\ \E c1, c2 \in DOMAIN mineral_groupings :
            /\ c1 # c2
            /\ Contribution(ds_min, mineral_groupings, c1, m, i) # 0
            /\ Contribution(ds_min, mineral_groupings, c2, m, i) # 0

\* C2 as claimed: with valid weights, no cell that is reported (not missing)
\* has categories whose total is 0.
C2_ZeroTotalIsMissing ==
  (pc = "aggregated" /\ ValidWeights(mineral_groupings)) =>
    \A i \in DOMAIN mineral_abundance :
      ~Missing(i) => SumCats(mineral_abundance[i], Len(mineral_names)) # 0

\* C2 as amended: every cell whose sum is 0 in each category separately
\* (contributions of opposite sign cancelling within the category included) is
\* missing in every category.
C2_AllZeroIsMissing ==
  pc = "aggregated" =>
    \A i \in DOMAIN mineral_abundance :
      (\A m \in Cats : CatValue(ds_min, mineral_groupings, m, i) = 0) => Missing(i)

\* C2 witness: two non-zero contributions cancel in a category and the cell is
\* missing.
C2_Witness ==
  /\ pc = "aggregated" /\ ValidWeights(mineral_groupings)
  /\ \E i \in DOMAIN mineral_abundance : \E m \in Cats :
       /\ Missing(i)
       /\ ~Poisoned(ds_min, mineral_groupings, m, i)
       /\ \E c1, c2 \in DOMAIN mineral_groupings :
            /\ Contribution(ds_min, mineral_groupings, c1, m, i) > 0
            /\ Contribution(ds_min, mineral_groupings, c2, m, i) < 0

\* C3: a raw weight -1 is resolved to 1 and, on layers of one shape, its row
\* adds exactly the band depth of every matching cell to its category.
C3_MarkerIsFullWeight ==
  (pc = "aggregated" /\ WellShaped(ds_min)) =>
    \A c \in DOMAIN mineral_groupings : \A m \in Cats :
      FEq(mineral_groupings[c].w[m], Num(-1)) =>
        /\ mineral_abundance_ref[c][m] = Num(1)
        /\ \A i \in DOMAIN mineral_abundance :
             (/\ Matches(ds_min, mineral_groupings, c, m, i)
              /\ ~Poisoned(ds_min, mineral_groupings, m, i)
              /\ ~Missing(i)) =>
               mineral_abundance[i][m].v =
                 WeightedSum(ds_min, RemoveRow(mineral_groupings, c), m, i)
                   + ds_min.band_depth[mineral_groupings[c].Group][i].v

\* C3 witness: the only contribution to a cell is a row of weight -1, and the
\* cell holds its band depth.
C3_Witness ==
  /\ pc = "aggregated" /\ WellShaped(ds_min)
  /\ \E c \in DOMAIN mineral_groupings : \E m \in Cats :
       /\ FEq(mineral_groupings[c].w[m], Num(-1))
       /\ \E i \in DOMAIN mineral_abundance :
            /\ Matches(ds_min, mineral_groupings, c, m, i)
            /\ WeightedSum(ds_min, RemoveRow(mineral_groupings, c), m, i) = 0
            /\ mineral_abundance[i][m] =
                 ds_min.band_depth[mineral_groupings[c].Group][i]
            /\ mineral_abundance[i][m].v > 0

\* The rows that have a weight for mineral m.
WithWeight(table, m) ==
  Pick(table, {c \in DOMAIN table : ~isnan(table[c].w[m])}, 1)
\* Column m of the cleared sums of a table.
Column(ds, table, m) ==
  LET acc == NanToZero(Accumulate(ds, table, Resolve(table)).acc)
  IN [i \in DOMAIN acc |-> acc[i][m]]

\* C4: an empty weight is resolved to 0 and adds nothing: the output is the one
\* obtained when, for each category, the rows with no weight for that category
\* are removed from the table.
C4_MissingWeightAddsNothing ==
  pc = "aggregated" =>
    /\ \A c \in DOMAIN mineral_groupings : \A m \in Cats :
         isnan(mineral_groupings[c].w[m]) => mineral_abundance_ref[c][m] = Num(0)
    /\ mineral_abundance =
         MaskAllZero([i \in DOMAIN mineral_abundance |->
            [m \in Cats |->
               Column(ds_min, WithWeight(mineral_groupings, m), m)[i]]])

\* C4 witness: a row with no weight at all matches a cell of non-zero band
\* depth, and the cell holds only what another row gave it.
C4_Witness ==
  /\ pc = "aggregated" /\ WellShaped(ds_min)
  /\ \E c \in DOMAIN mineral_groupings : \E i \in DOMAIN mineral_abundance :
       /\ \A m \in Cats : isnan(mineral_groupings[c].w[m])
       /\ FEq(ds_min.mineral_id[mineral_groupings[c].Group][i],
              Num(mineral_groupings[c].Index))
       /\ ~FEq(ds_min.band_depth[mineral_groupings[c].Group][i], Num(0))
       /\ ~Missing(i)

Permute(table, p) == [c \in DOMAIN table |-> table[p[c]]]

\* C5: the output of a completed aggregation is the same for every reordering
\* of the table rows.
C5_RowOrderInvariant ==
  pc = "aggregated" =>
    \A p \in Permutations(DOMAIN mineral_groupings) :
      Abundance(ds_min, Permute(mineral_groupings, p))
        = [err |-> FALSE, out |-> mineral_abundance]

\* C5 witness: two different rows both add a non-zero amount to one cell and
\* category.
C5_Witness ==
  /\ pc = "aggregated" /\ ValidWeights(mineral_groupings)
  /\ \E c1, c2 \in DOMAIN mineral_groupings :
       /\ mineral_groupings[c1] # mineral_groupings[c2]
       /\ \E i \in DOMAIN mineral_abundance : \E m \in Cats :
            /\ ~Poisoned(ds_min, mineral_groupings, m, i)
            /\ Contribution(ds_min, mineral_groupings, c1, m, i) # 0
            /\ Contribution(ds_min, mineral_groupings, c2, m, i) # 0
            /\ ~Missing(i)

\* Rows c1 and c2 are of one (Group, Index) and both weigh some category, with
\* valid weights.
Duplicates(table, c1, c2) ==
  /\ c1 < c2
  /\ table[c1].Group = table[c2].Group /\ table[c1].Index = table[c2].Index
  /\ ValidWeights(<<table[c1], table[c2]>>)
  /\ \E m \in Cats : ~isnan(table[c1].w[m]) /\ ~isnan(table[c2].w[m])
\* The table with row c2 removed and its weights added to those of row c1.
Merge(table, c1, c2) ==
  RemoveRow(
    [table EXCEPT ![c1].w =
       [m \in Cats |->
          IF isnan(table[c1].w[m]) /\ isnan(table[c2].w[m]) THEN NaN
          ELSE Num(Weight(table[c1].w[m]) + Weight(table[c2].w[m]))]],
    c2)

\* C6: two rows of one (Group, Index, category) give the output of the single
\* row that carries the sum of their weights.
C6_DuplicateRowsSum ==
  pc = "aggregated" =>
    \A c1, c2 \in DOMAIN mineral_groupings :
      Duplicates(mineral_groupings, c1, c2) =>
        Abundance(ds_min, Merge(mineral_groupings, c1, c2))
          = [err |-> FALSE, out |-> mineral_abundance]

\* C6 witness: two rows of weight 1 (the marker) for one entry and category
\* match a cell, which holds twice its band depth.
C6_Witness ==
  /\ pc = "aggregated" /\ WellShaped(ds_min)
  /\ \E c1, c2 \in DOMAIN mineral_groupings :
       /\ Duplicates(mineral_groupings, c1, c2)
       /\ \E i \in DOMAIN mineral_abundance : \E m \in Cats :
            /\ Matches(ds_min, mineral_groupings, c1, m, i)
            /\ Matches(ds_min, mineral_groupings, c2, m, i)
            /\ Weight(mineral_groupings[c1].w[m]) = 1
            /\ Weight(mineral_groupings[c2].w[m]) = 1
            /\ ~isnan(mineral_abundance[i][m])
            /\ mineral_abundance[i][m].v =
                 2 * ds_min.band_depth[mineral_groupings[c1].Group][i].v
            /\ mineral_abundance[i][m].v # 0

\* The table is the single entry (Group, Index, category m, weight) and cell i
\* is the only cell of that group's id layer equal to Index; its band depth is
\* present and the product with the weight is not 0.
SingleEntry(m, i) ==
  /\ Len(mineral_groupings) = 1
  /\ WellShaped(ds_min)
  /\ i \in DOMAIN mineral_abundance
  /\ \A k \in Cats : isnan(mineral_groupings[1].w[k]) <=> k # m
  /\ \A j \in DOMAIN mineral_abundance :
       FEq(ds_min.mineral_id[mineral_groupings[1].Group][j],
           Num(mineral_groupings[1].Index)) <=> j = i
  /\ ~isnan(ds_min.band_depth[mineral_groupings[1].Group][i])
  /\ ds_min.band_depth[mineral_groupings[1].Group][i].v
       * Weight(mineral_groupings[1].w[m]) # 0
Product(m, i) ==
  Num(ds_min.band_depth[mineral_groupings[1].Group][i].v
        * Weight(mineral_groupings[1].w[m]))

\* C7 as claimed: the cell holds band depth times weight in the category, and
\* every other cell and every other category is missing.
C7_OthersAllMissing ==
  pc = "aggregated" =>
    \A m \in Cats : \A i \in DOMAIN mineral_abundance :
      SingleEntry(m, i) =>
        /\ mineral_abundance[i][m] = Product(m, i)
        /\ \A j \in DOMAIN mineral_abundance : j # i => Missing(j)
        /\ \A k \in Cats : k # m =>
             \A j \in DOMAIN mineral_abundance : isnan(mineral_abundance[j][k])

\* C7 as amended: the cell holds band depth times weight in the category and 0
\* in every other category, and every other cell is missing in every category.
C7_SingleEntry ==
  pc = "aggregated" =>
    \A m \in Cats : \A i \in DOMAIN mineral_abundance :
      SingleEntry(m, i) =>
        /\ mineral_abundance[i][m] = Product(m, i)
        /\ \A k \in Cats : k # m => mineral_abundance[i][k] = Num(0)
        /\ \A j \in DOMAIN mineral_abundance : j # i => Missing(j)

\* C7 witness: a single entry of weight 2 matches one of two cells.
C7_Witness ==
  /\ pc = "aggregated"
  /\ Len(mineral_abundance) >= 2
  /\ \E m \in Cats : \E i \in DOMAIN mineral_abundance :
       /\ SingleEntry(m, i)
       /\ mineral_groupings[1].w[m] = Num(2)

\* The mineral id is a library entry no row of the table is for.
Unmatched(table, g, id) ==
  /\ ~isnan(id) /\ id.v # 0
  /\ \A c \in DOMAIN table : table[c].Group # g \/ table[c].Index # id.v
\* The dataset with every unmatched mineral id replaced by 0 (no match).
ZeroUnmatched(ds, table) ==
  [ds EXCEPT !.mineral_id =
     [g \in Groups |->
        [i \in DOMAIN ds.mineral_id[g] |->
           IF Unmatched(table, g, ds.mineral_id[g][i]) THEN Num(0)
           ELSE ds.mineral_id[g][i]]]]

\* C8: a mineral id with no table row raises nothing (a ValueError comes only
\* from layers of different shapes) and the output is the one obtained with
\* that id replaced by 0.
C8_UnmatchedIdAddsNothing ==
  /\ pc = "ValueError" => ~WellShaped(ds_min)
  /\ pc = "aggregated" =>
       Abundance(ZeroUnmatched(ds_min, mineral_groupings), mineral_groupings)
         = [err |-> FALSE, out |-> mineral_abundance]

\* C8 witness: a cell of group g carries an unmatched id and a non-zero band
\* depth, the table has a weighted row of group g, and the aggregation is done.
C8_Witness ==
  /\ pc = "aggregated" /\ WellShaped(ds_min)
  /\ \E g \in Groups : \E i \in DOMAIN mineral_abundance :
       /\ Unmatched(mineral_groupings, g, ds_min.mineral_id[g][i])
       /\ ~isnan(ds_min.band_depth[g][i]) /\ ds_min.band_depth[g][i].v # 0
       /\ \E c \in DOMAIN mineral_groupings : \E m \in Cats :
            mineral_groupings[c].Group = g /\ ~isnan(mineral_groupings[c].w[m])

\* C9: a table value that is neither a weight, nor empty, nor the -1 marker
\* is reported as an error and never used: no completed aggregation reports a
\* cell that a row with such a value has added a non-zero product to.
C9_MalformedWeightNeverUsed ==
  pc = "aggregated" =>
    \A c \in DOMAIN mineral_groupings : \A m \in Cats :
      ~ValidWeights(<<mineral_groupings[c]>>) =>
        \A i \in DOMAIN mineral_abundance :
          (~Missing(i) /\ ~Poisoned(ds_min, mineral_groupings, m, i)) =>
            Contribution(ds_min, mineral_groupings, c, m, i) = 0

\* C10: when the shape mismatch is reported (numpy raises ValueError), no
\* table row has been accumulated yet and mineral_abundance is still all 0.
C10_ShapeErrorBeforeAccumulation ==
  pc = "ValueError" => (accumulated = 0 /\ mineral_abundance = Zeros(ds_min))

\* C16: with valid weights, at a cell where some group has no band depth
\* (NaN) and no row matching the cell for the category lies in such a group,
\* the category holds the sum of the matching contributions of the other
\* groups (when that sum is not 0).
C16_MissingDepthAddsNothing ==
  (pc = "aggregated" /\ WellShaped(ds_min) /\ ValidWeights(mineral_groupings)) =>
    \A i \in DOMAIN mineral_abundance : \A m \in Cats :
      (/\ \E g \in Groups : isnan(ds_min.band_depth[g][i])
       /\ \A c \in DOMAIN mineral_groupings :
            Matches(ds_min, mineral_groupings, c, m, i) =>
              ~isnan(ds_min.band_depth[mineral_groupings[c].Group][i])
       /\ WeightedSum(ds_min, mineral_groupings, m, i) # 0) =>
        mineral_abundance[i][m] = Num(WeightedSum(ds_min, mineral_groupings, m, i))

\* C17: a cell is missing in one category exactly when it is missing in all,
\* and a cell whose sum is non-zero in some category is reported, with 0 in
\* every category no row contributed to.
C17_MissingAllOrNothing ==
  pc = "aggregated" =>
    \A i \in DOMAIN mineral_abundance :
      /\ (\E m \in Cats : isnan(mineral_abundance[i][m])) => Missing(i)
      /\ (\E m \in Cats : CatValue(ds_min, mineral_groupings, m, i) # 0) =>
           /\ ~Missing(i)
           /\ \A m \in Cats :
                (\A c \in DOMAIN mineral_groupings :
                   ~Matches(ds_min, mineral_groupings, c, m, i)) =>
                  mineral_abundance[i][m] = Num(0)

\* C17 witness: a reported cell with a non-zero category and a category no row
\* matches, which holds 0.
C17_Witness ==
  /\ pc = "aggregated" /\ ValidWeights(mineral_groupings)
  /\ \E i \in DOMAIN mineral_abundance : \E m, k \in Cats :
       /\ ~isnan(mineral_abundance[i][m]) /\ mineral_abundance[i][m].v # 0
       /\ \A c \in DOMAIN mineral_groupings :
            ~Matches(ds_min, mineral_groupings, c, k, i)
       /\ mineral_abundance[i][k] = Num(0)

\* C18: weight resolution and aggregation leave mineral_groupings and the
\* layers of ds_min as they were.
C18_InputsUnchanged ==
  [][(pc \in {"filled", "resolved"}) =>
       (mineral_groupings' = mineral_groupings /\ ds_min' = ds_min)]_vars

\* C18 witness: after the aggregation the table still holds an empty weight and
\* a -1 that the copy holds as 0 and 1.
C18_Witness ==
  /\ pc = "aggregated"
  /\ \E c \in DOMAIN mineral_groupings : \E m, k \in Cats :
       /\ mineral_groupings[c].w[m] = Num(-1) /\ mineral_abundance_ref[c][m] = Num(1)
       /\ isnan(mineral_groupings[c].w[k]) /\ mineral_abundance_ref[c][k] = Num(0)
  /\ \E i \in DOMAIN mineral_abundance : ~Missing(i)

(***************************************************************************)
(* The orthorectified dataset against the granule it was gathered from.    *)
(***************************************************************************)
\* The layers of the orthorectified dataset are read.
Remapped == pc \in {"ortho", "filled"}
\* A missing cell: the fill value as et.ortho_xr leaves it, NaN once replaced.
MissingCell(x) == IF pc = "ortho" THEN x = Num(FillValue) ELSE isnan(x)
MissingEverywhere(j) ==
  \A g \in Groups : MissingCell(ds_min.mineral_id[g][j]) /\ MissingCell(ds_min.band_depth[g][j])
\* Output cell j holds, in every layer, the source pixel at 0-based (r, c).
GatheredFrom(j, rc) ==
  \A g \in Groups :
    /\ ds_min.mineral_id[g][j] = granule.mineral_id[g][rc]
    /\ ds_min.band_depth[g][j] = granule.band_depth[g][rc]
SomePixel(g, rc) == granule.mineral_id[g][rc] = Num(Entry(g))
\* The index map that sends every output cell to itself.
Identity ==
  /\ granule.shape = <<1, Len(granule.glt)>>
  /\ \A j \in DOMAIN granule.glt : granule.glt[j] = <<1, j>>

\* C11: an output cell whose index-map entry is invalid (a non-positive raw
\* value) is missing in every layer of the remapped dataset, whatever the
\* source rasters hold.
C11_InvalidCellMissing ==
  Remapped =>
    \A j \in DOMAIN granule.glt : ~Valid(granule.glt[j]) => MissingEverywhere(j)
\* An invalid cell of either kind, remapped from a source with no empty pixel.
C11_Witness ==
  /\ pc = "ortho"
  /\ \E j \in DOMAIN granule.glt : granule.glt[j] = <<0, 0>> /\ MissingEverywhere(j)
  /\ \E j \in DOMAIN granule.glt : granule.glt[j] = <<-1, -1>> /\ MissingEverywhere(j)
  /\ \A rc \in Positions(granule.shape) : \A g \in Groups : SomePixel(g, rc)

\* C12: when every index-map entry is valid and inside the source raster, each
\* output cell holds the source pixel at its raw indices less one, in every
\* layer; under the identity map the output is the source.
C12_DirectGather ==
  (pc = "ortho" /\ \A j \in DOMAIN granule.glt :
                     Valid(granule.glt[j]) /\ InBounds(Decode(granule.glt[j]), granule.shape)) =>
    /\ \A j \in DOMAIN granule.glt :
         GatheredFrom(j, <<granule.glt[j][1] - 1, granule.glt[j][2] - 1>>)
    /\ Identity =>
         \A g \in Groups : \A j \in DOMAIN granule.glt :
           /\ ds_min.mineral_id[g][j] = granule.mineral_id[g][<<0, j - 1>>]
           /\ ds_min.band_depth[g][j] = granule.band_depth[g][<<0, j - 1>>]
\* The identity map over a source row of two different pixels.
C12_Witness ==
  /\ pc = "ortho" /\ Identity /\ Len(granule.glt) = 2
  /\ SomePixel(1, <<0, 0>>) /\ ~SomePixel(1, <<0, 1>>)
  /\ ds_min.mineral_id[1] = <<Num(Entry(1)), Num(0)>>
\* A gather from the second row of the source, columns swapped.
C12_WitnessGather ==
  /\ pc = "ortho" /\ granule.shape = <<2, 2>>
  /\ granule.glt = <<<<2, 2>>, <<2, 1>>>>
  /\ SomePixel(2, <<1, 0>>) /\ ~SomePixel(2, <<1, 1>>) /\ ~SomePixel(2, <<0, 0>>)
  /\ ds_min.mineral_id[2] = <<Num(0), Num(Entry(2))>>

\* C13: a valid index-map entry that decodes outside the source raster is
\* treated as invalid: the remap is never refused, that cell is missing in
\* every layer and the other valid cells are gathered as usual.
C13_OutOfRangeMissing ==
  /\ pc = "min_df" => ENABLED Ortho
  /\ Remapped =>
       \A j \in DOMAIN granule.glt :
         LET p == granule.glt[j]
         IN /\ (Valid(p) /\ ~InBounds(Decode(p), granule.shape)) => MissingEverywhere(j)
            /\ (pc = "ortho" /\ Valid(p) /\ InBounds(Decode(p), granule.shape)) =>
                 GatheredFrom(j, Decode(p))
\* An index one past the last column beside a cell gathered from the source.
C13_Witness ==
  /\ pc = "ortho" /\ granule.shape = <<2, 2>>
  /\ granule.glt = <<<<1, 3>>, <<2, 1>>>>
  /\ \A rc \in Positions(granule.shape) : \A g \in Groups : SomePixel(g, rc)
  /\ MissingEverywhere(1) /\ ~MissingEverywhere(2)

(***************************************************************************)
(* The exported files against the layers they were written from.           *)
(***************************************************************************)
\* Layer a has the missing cells of layer b and its values elsewhere.
Recovers(a, b) ==
  /\ DOMAIN a = DOMAIN b
  /\ \A i \in DOMAIN b :
       /\ isnan(a[i]) <=> isnan(b[i])
       /\ ~isnan(b[i]) => a[i] = b[i]

\* C14: a layer written with its missing cells as -9999 and the nodata tag
\* -9999, then read back with -9999 decoded as missing, has the same missing
\* cells and the same values at the others: this holds of the file each
\* export step writes and of what the read-back step returns from the files.
C14_RoundTrip ==
  [][/\ (pc = "aggregated" /\ pc' = "mineral_id_written") =>
          /\ tif'.group_1_mineral_id.nodata = FillValue
          /\ \A i \in DOMAIN tif'.group_1_mineral_id.data :
               ~isnan(tif'.group_1_mineral_id.data[i])
          /\ Recovers(FillToNaN(tif'.group_1_mineral_id.data), ds_min.mineral_id[1])
     /\ (pc = "mineral_id_written" /\ pc' = "band_depth_written") =>
          /\ tif'.group_1_band_depth.nodata = FillValue
          /\ \A i \in DOMAIN tif'.group_1_band_depth.data :
               ~isnan(tif'.group_1_band_depth.data[i])
          /\ Recovers(FillToNaN(tif'.group_1_band_depth.data), ds_min.band_depth[1])
          /\ tif'.group_1_mineral_id = tif.group_1_mineral_id
     /\ (pc = "band_depth_written" /\ pc' = "reread") =>
          /\ reread'.group_1_mineral_id = FillToNaN(tif.group_1_mineral_id.data)
          /\ reread'.group_1_band_depth = FillToNaN(tif.group_1_band_depth.data)]_vars
\* Both files read back, each with a missing cell beside a matched one.
C14_Witness ==
  /\ pc = "reread"
  /\ \E i, j \in DOMAIN reread.group_1_mineral_id :
       /\ isnan(reread.group_1_mineral_id[i]) /\ isnan(reread.group_1_band_depth[i])
       /\ tif.group_1_mineral_id.data[i] = Num(FillValue)
       /\ tif.group_1_band_depth.data[i] = Num(FillValue)
       /\ reread.group_1_mineral_id[j] = Num(Entry(1))
       /\ reread.group_1_band_depth[j] = Num(Depth(1))

(***************************************************************************)
(* The reference table.                                                    *)
(***************************************************************************)
\* The library lists the identifiers 1..N in order.
InOrder(ds) == \A k \in DOMAIN ds.index : ds.index[k] = k

\* C15: once min_df is built from a library whose identifiers are 1..N in
\* order, it has N+1 rows, exactly one of identifier 0, which is the first
\* and is named No_Match; the row at position k (from 0) has identifier k,
\* so the position at which a name is found in the list of names is the
\* identifier of a row of that name.
C15_PositionIsIdentifier ==
  (pc # "opened" /\ InOrder(granule)) =>
    /\ Len(min_df) = Len(granule.index) + 1
    /\ min_df[1].index = 0 /\ min_df[1].mineral_name = "No_Match"
    /\ Cardinality({k \in DOMAIN min_df : min_df[k].index = 0}) = 1
    /\ \A k \in 0..Len(granule.index) : min_df[k + 1].index = k /\ min_df[k + 1].label = k
    /\ \A k \in 1..Len(granule.index) : min_df[k + 1].mineral_name = granule.mineral_name[k]
    /\ \A k \in DOMAIN min_df :
         LET pos == ListIndex(min_df, min_df[k].mineral_name)
         IN min_df[pos + 1].index = pos /\ min_df[pos + 1].mineral_name = min_df[k].mineral_name
\* A library of as many minerals as the bound allows, with a name repeated.
C15_Witness ==
  /\ pc = "min_df" /\ InOrder(granule)
  /\ Len(granule.index) = MaxMinerals
  /\ granule.mineral_name[1] # granule.mineral_name[2]
  /\ granule.mineral_name[1] = granule.mineral_name[Len(granule.index)]
  /\ min_df[1].mineral_name = "No_Match"
  /\ ListIndex(min_df, granule.mineral_name[2]) = 2

====
